---- MODULE Spec2Model ----
(***************************************************************************)
(* Petrushin cluster analysis (petrushin_cluster_analysis.py).             *)
(*                                                                         *)
(* find_clusters is modelled as a state machine: one action per loop       *)
(* iteration of find_single_solution, one for excluding_inter_connections, *)
(* one for the scoring and selection block of a candidate.  The helper     *)
(* functions are operators computed as the code computes them.             *)
(*                                                                         *)
(* Representation choices:                                                 *)
(*  - a graph is a record [n, E]: nodes 1..n in G.nodes() order, E the set *)
(*    of directed edges (parallel edges of a MultiDiGraph collapse, as     *)
(*    has_edge / successors / predecessors do not distinguish them);       *)
(*  - info[0], info[1] are Python lists; every read of them in the code is *)
(*    a membership / existence test or follows list(set(...)), so they are *)
(*    modelled as the pair <<R, B>> of sets;                               *)
(*  - p_eff = 100 * (1 - p_after / p_before) is a float; it is kept as the *)
(*    exact integer p_eff * p_before = 100 * (p_before - p_after), which   *)
(*    preserves every comparison the code makes within one search          *)
(*    (p_before = nodes * nodes is the same positive number throughout);   *)
(*  - parameter is "max", a numeric string or any other string: a record   *)
(*    [kind, val] with kind in {"max", "num", "bad"}.                      *)
(***************************************************************************)
EXTENDS Integers, Sequences, FiniteSets, TLC

\* ---------------------------------------------------------------- bounds
NumNodes == 4
MaxEdges == 3

\* ------------------------------------------------------ program constants
RoundCap == 15

\* ------------------------------------------------------------ the graph
has_edge(g, u, v) == <<u, v>> \in g.E

successors(g, key) == {v \in 1..g.n : <<key, v>> \in g.E}

predecessors(g, key) == {u \in 1..g.n : <<u, key>> \in g.E}

number_of_nodes(g) == g.n

PossibleEdges(k) == {e \in (1..k) \X (1..k) : e[1] # e[2]}

RECURSIVE EdgeSets(_, _)
EdgeSets(k, m) ==
    IF m = 0 THEN {{}}
    ELSE LET smaller == EdgeSets(k, m - 1)
         IN  smaller \cup {S \cup {e} : S \in smaller, e \in PossibleEdges(k)}

SmallGraphs ==
    UNION {{[n |-> k, E |-> S] : S \in EdgeSets(k, MaxEdges)} : k \in 1..NumNodes}

\* seed (1, 4) keeps growing and shrinking for as long as the loop allows
OscillatingGraph ==
    [n |-> 7,
     E |-> {<<1, 2>>, <<1, 7>>, <<3, 1>>, <<3, 5>>, <<4, 5>>,
            <<5, 6>>, <<6, 2>>, <<6, 3>>, <<7, 3>>, <<7, 5>>}]

\* seed (2, 5) grows into two largely overlapping clusters
OverlapGraph ==
    [n |-> 6,
     E |-> {<<1, 2>>, <<1, 3>>, <<2, 4>>, <<4, 3>>, <<4, 5>>, <<5, 6>>, <<6, 1>>}]

\* seed (4, 5): the second round adds one node to R and removes two
ShrinkGraph ==
    [n |-> 5,
     E |-> {<<1, 2>>, <<1, 3>>, <<2, 1>>, <<2, 3>>, <<4, 1>>, <<5, 3>>}]

Graphs == SmallGraphs \cup {OscillatingGraph, OverlapGraph, ShrinkGraph}

\* ------------------------------------------------------- configuration
Criteria == {"power", "size"}

\* a power saving in percent for "power", a number of nodes for "size"
Thresholds(crit) == IF crit = "power" THEN {23} ELSE {3}

Parameters(crit) ==
    {[kind |-> "max", val |-> 0], [kind |-> "bad", val |-> 0]}
        \cup {[kind |-> "num", val |-> v] : v \in Thresholds(crit)}

\* ------------------------------------------------- unique_sucsessors
EmptyInfo == <<{}, {}>>

Other(m) == 3 - m

SuccessorsOf(g, S) == UNION {successors(g, key) : key \in S}

AddReplacing(g, info) ==
    LET temp1 == <<SuccessorsOf(g, info[1]), SuccessorsOf(g, info[2])>>
    IN  <<temp1[1] \ temp1[2], temp1[2] \ temp1[1]>>

AddSuccessors(g, info) ==
    LET temp1 == <<SuccessorsOf(g, info[1]), SuccessorsOf(g, info[2])>>
    IN  <<info[1] \cup (temp1[1] \ temp1[2]),
          info[2] \cup (temp1[2] \ temp1[1])>>

in_con(g, info, m, key1) == \E key2 \in info[m] : has_edge(g, key1, key2)

out_con(g, info, m, key1) == \E key2 \in info[Other(m)] : has_edge(g, key1, key2)

ConflictCond(ic, oc) == ic /\ oc

RemoveConflicts(g, info) ==
    LET temp == [m \in 1..2 |->
                    {key1 \in info[m] :
                        ConflictCond(in_con(g, info, m, key1),
                                     out_con(g, info, m, key1))}]
    IN  <<info[1] \ temp[1], info[2] \ temp[2]>>

unique_sucsessors(g, info) == RemoveConflicts(g, AddSuccessors(g, info))

\* ---------------------------------------- excluding_inter_connections
InterCondSwapped(ic, oc) == ic /\ oc

InterCondOr(ic, oc) == (~ic) \/ oc

InterCond(ic, oc) == (~ic) /\ oc

excluding_inter_connections(g, info) ==
    LET temp == [m \in 1..2 |->
                    {key1 \in info[m] :
                        InterCond(in_con(g, info, m, key1),
                                  out_con(g, info, m, key1))}]
    IN  <<info[1] \ temp[1], info[2] \ temp[2]>>

\* --------------------------------------------------------- create_table
create_table(g) ==
    LET k == g.n
        node_pairs == [i \in 1..(k * k) |-> <<((i - 1) \div k) + 1, ((i - 1) % k) + 1>>]
        keep(p) == /\ p[1] < p[2]
                   /\ p[2] \notin successors(g, p[1])
                   /\ p[2] \notin predecessors(g, p[1])
    IN  SelectSeq(node_pairs, keep)

\* -------------------------------------------------------------- scoring
PBefore(nodes) == nodes * nodes

PAfter(nodes, len1, len2) ==
    LET a == nodes - len1 - len2
    IN  len1 * (len1 + a) + len2 * (len2 + a) + nodes * a

\* p_eff * p_before
PEff(nodes, len1, len2) == 100 * (PBefore(nodes) - PAfter(nodes, len1, len2))

CapReachedLate(k) == k > RoundCap + 1

CapReached(k) == k > RoundCap

ExceedsOrTies(a, b) == a >= b

\* the strict comparisons of max mode, lines 223 and 236
Exceeds(a, b) == a > b

AtLeastThreshold(a, b) == a >= b

\* the strict comparisons of threshold mode, lines 229 and 242
AboveThreshold(a, b) == a > b

IntParameterPowerOnly(crit, par) == crit = "power" /\ par.kind # "max"

IntParameterEvaluated(crit, par) == crit \in {"power", "size"} /\ par.kind # "max"

\* ---------------------------------------------------------------- state
VARIABLES
    G, criterion, parameter, exclude_inter,   \* the arguments of find_clusters
    pc,                                       \* position in find_clusters
    origins, x,                               \* candidate table and loop index (0-based)
    info, mid,                                \* cluster pair; its value after the addition step
    length1, length2, check, n,               \* locals of find_single_solution
    unfiltered,                               \* the pair handed to excluding_inter_connections
    p_eff_max, max_len1, max_len2,            \* running maxima of find_clusters
    cluster, info_cluster,                    \* the two results
    scored                                    \* the candidates scored so far, in order

vars == <<G, criterion, parameter, exclude_inter, pc, origins, x, info, mid,
          length1, length2, check, n, unfiltered, p_eff_max, max_len1, max_len2,
          cluster, info_cluster, scored>>

args == <<G, criterion, parameter, exclude_inter>>

growth == <<info, mid, length1, length2, check, n>>

best == <<p_eff_max, max_len1, max_len2, cluster, info_cluster, scored>>

InitLocals ==
    /\ origins = <<>>
    /\ x = 0
    /\ info = EmptyInfo
    /\ mid = EmptyInfo
    /\ length1 = 0
    /\ length2 = 0
    /\ check = 1
    /\ n = 0
    /\ unfiltered = EmptyInfo
    /\ p_eff_max = 0
    /\ max_len1 = 0
    /\ max_len2 = 0
    /\ cluster = EmptyInfo
    /\ info_cluster = <<>>
    /\ scored = <<>>

Init ==
    /\ G \in Graphs
    /\ criterion \in Criteria
    /\ parameter \in Parameters(criterion)
    /\ exclude_inter \in BOOLEAN
    /\ pc = "start"
    /\ InitLocals

\* lines 204-207
Start ==
    /\ pc = "start"
    /\ origins' = create_table(G)
    /\ pc' = "loop"
    /\ UNCHANGED <<args, x, growth, unfiltered, best>>

\* lines 208, 211 and the entry of find_single_solution (line 167)
BeginCandidate ==
    /\ pc = "loop"
    /\ x < Len(origins)
    /\ info' = <<{origins[x + 1][1]}, {origins[x + 1][2]}>>
    /\ mid' = <<{origins[x + 1][1]}, {origins[x + 1][2]}>>
    /\ length1' = 0
    /\ length2' = 0
    /\ check' = 1
    /\ n' = 0
    /\ pc' = "grow"
    /\ UNCHANGED <<args, origins, x, unfiltered, best>>

\* one iteration of the while loop, lines 168-177 (and the return, line 178)
GrowthRound ==
    /\ pc = "grow"
    /\ check > 0
    /\ LET new == unique_sucsessors(G, info)
           grew == (length1 < Cardinality(new[1])) \/ (length2 < Cardinality(new[2]))
           check1 == IF grew THEN check ELSE check - 1
           check2 == IF CapReached(n + 1) THEN check1 - 1 ELSE check1
       IN  /\ n' = n + 1
           /\ mid' = AddSuccessors(G, info)
           /\ info' = new
           /\ length1' = IF grew THEN Cardinality(new[1]) ELSE length1
           /\ length2' = IF grew THEN Cardinality(new[2]) ELSE length2
           /\ check' = check2
           /\ pc' = IF check2 > 0 THEN "grow"
                    ELSE IF exclude_inter = TRUE THEN "filter" ELSE "score"
    /\ UNCHANGED <<args, origins, x, unfiltered, best>>

\* lines 213-214
ExcludeInter ==
    /\ pc = "filter"
    /\ unfiltered' = info
    /\ info' = excluding_inter_connections(G, info)
    /\ pc' = "score"
    /\ UNCHANGED <<args, origins, x, mid, length1, length2, check, n, best>>

Record(key1, key2, len1, len2, p) ==
    [Node1 |-> key1, Node2 |-> key2, R_size |-> len1, B_size |-> len2,
     Size |-> len1 + len2, P_saving |-> p]

\* int(parameter) raises ValueError, lines 229 and 242
ScoreError ==
    /\ pc = "score"
    /\ IntParameterEvaluated(criterion, parameter)
    /\ parameter.kind = "bad"
    /\ pc' = "error"
    /\ UNCHANGED <<args, origins, x, growth, unfiltered, best>>

\* lines 215-246
Score ==
    /\ pc = "score"
    /\ ~(IntParameterEvaluated(criterion, parameter) /\ parameter.kind = "bad")
    /\ LET key1 == origins[x + 1][1]
           key2 == origins[x + 1][2]
           nodes == number_of_nodes(G)
           len1 == Cardinality(info[1])
           len2 == Cardinality(info[2])
           p_eff == PEff(nodes, len1, len2)
           nonempty == len1 # 0 /\ len2 # 0
           rec == Record(key1, key2, len1, len2, p_eff)
           takeMax ==
               \/ /\ criterion = "power"
                  /\ Exceeds(p_eff, p_eff_max)
               \/ /\ criterion = "size"
                  /\ Exceeds(len1 + len2, max_len1 + max_len2)
           qualifies ==
               \/ /\ criterion = "power"
                  /\ AboveThreshold(p_eff, parameter.val * PBefore(nodes))
               \/ /\ criterion = "size"
                  /\ AboveThreshold(len1 + len2, parameter.val)
       IN  /\ scored' = Append(scored, [key1 |-> key1, key2 |-> key2,
                                         R |-> info[1], B |-> info[2], p_eff |-> p_eff])
           /\ IF parameter.kind = "max"
              THEN IF takeMax /\ nonempty
                   THEN /\ max_len1' = len1
                        /\ max_len2' = len2
                        /\ p_eff_max' = p_eff
                        /\ cluster' = info
                        /\ info_cluster' = <<rec>>
                   ELSE UNCHANGED <<max_len1, max_len2, p_eff_max, cluster, info_cluster>>
              ELSE IF qualifies /\ nonempty
                   THEN /\ info_cluster' = Append(info_cluster, rec)
                        /\ IF p_eff_max < p_eff
                           THEN /\ p_eff_max' = p_eff
                                /\ cluster' = info
                           ELSE UNCHANGED <<p_eff_max, cluster>>
                        /\ UNCHANGED <<max_len1, max_len2>>
                   ELSE UNCHANGED <<max_len1, max_len2, p_eff_max, cluster, info_cluster>>
    /\ x' = x + 1
    /\ pc' = "loop"
    /\ UNCHANGED <<args, origins, growth, unfiltered>>

\* line 249
Return ==
    /\ pc = "loop"
    /\ x = Len(origins)
    /\ pc' = "done"
    /\ UNCHANGED <<args, origins, x, growth, unfiltered, best>>

Next ==
    \/ Start
    \/ BeginCandidate
    \/ GrowthRound
    \/ ExcludeInter
    \/ ScoreError
    \/ Score
    \/ Return

Spec == Init /\ [][Next]_vars

\* ------------------------------------------------------------------------
\* excluding_inter_connections on its own: any graph, any disjoint (R, B),
\* the filter applied twice in succession.
DisjointPairs(k) ==
    {p \in (SUBSET (1..k)) \X (SUBSET (1..k)) : p[1] \cap p[2] = {}}

InitFilter ==
    /\ G \in SmallGraphs
    /\ criterion = "power"
    /\ parameter = [kind |-> "max", val |-> 0]
    /\ exclude_inter = TRUE
    /\ pc = "f0"
    /\ origins = <<>>
    /\ x = 0
    /\ info \in DisjointPairs(G.n)
    /\ mid = EmptyInfo
    /\ length1 = 0
    /\ length2 = 0
    /\ check = 1
    /\ n = 0
    /\ unfiltered = info
    /\ p_eff_max = 0
    /\ max_len1 = 0
    /\ max_len2 = 0
    /\ cluster = EmptyInfo
    /\ info_cluster = <<>>
    /\ scored = <<>>

FilterOnce ==
    /\ pc = "f0"
    /\ info' = excluding_inter_connections(G, info)
    /\ pc' = "f1"
    /\ UNCHANGED <<args, origins, x, mid, length1, length2, check, n, unfiltered, best>>

FilterTwice ==
    /\ pc = "f1"
    /\ info' = excluding_inter_connections(G, info)
    /\ pc' = "f2"
    /\ UNCHANGED <<args, origins, x, mid, length1, length2, check, n, unfiltered, best>>

NextFilter ==
    \/ FilterOnce
    \/ FilterTwice

SpecFilter == InitFilter /\ [][NextFilter]_vars

\* ------------------------------------------------------------------------
\* Properties

Size(i) == Cardinality(i[1]) + Cardinality(i[2])

InterEdge(g, i) ==
    \E u \in i[1], v \in i[2] : has_edge(g, u, v) \/ has_edge(g, v, u)

\* a node with an edge into its own set and an edge into the opposite set
ConflictNode(g, i) ==
    \E m \in 1..2 : \E key1 \in i[m] : in_con(g, i, m, key1) /\ out_con(g, i, m, key1)

\* C1: the cluster [R, B] returned by find_clusters has no edge between R
\* and B, in either direction.
C1_ReturnedClusterHasNoInterEdge ==
    pc = "done" => ~InterEdge(G, cluster)

\* C2: R and B are disjoint at every observation point: after the seeds,
\* after the successor-addition step and after the conflict-removal step of
\* every round, and after excluding_inter_connections.
C2_AlwaysDisjoint ==
    /\ info[1] \cap info[2] = {}
    /\ mid[1] \cap mid[2] = {}

\* C3 (as stated): find_single_solution executes unique_sucsessors at most
\* 15 times.
C3_AtMostFifteenRounds ==
    n <= RoundCap

\* C3 (amended): find_single_solution executes unique_sucsessors at most 16
\* times (one more than the 15 of the test n > 15), and it has left the loop
\* once check is no longer positive.
C3_AtMostSixteenRounds ==
    /\ n <= RoundCap + 1
    /\ pc = "grow" => check > 0
    /\ pc = "grow" => n <= RoundCap

C3_SixteenRoundsReached ==
    /\ n = RoundCap + 1
    /\ pc \in {"score", "filter"}

\* C4 (as stated): |R| + |B| after a growth round is at least its value
\* before that round.
C4_SizeNonDecreasing ==
    [][pc = "grow" => Size(info') >= Size(info)]_vars

\* C4 (amended): the successor-addition step of a round never shrinks R or
\* B: right after it both sets contain what they held before the round; only
\* the conflict-removal pass that follows can lower |R| + |B|, and it never
\* removes the seed of either set.
C4_AdditionStepNonDecreasing ==
    [][pc = "grow" =>
          /\ info[1] \subseteq mid'[1]
          /\ info[2] \subseteq mid'[2]
          /\ Size(mid') >= Size(info)
          /\ info'[1] \subseteq mid'[1]
          /\ info'[2] \subseteq mid'[2]
          /\ origins[x + 1][1] \in info'[1]
          /\ origins[x + 1][2] \in info'[2]]_vars

\* a round has just left |R| + |B| below the lengths recorded at the end of
\* the previous round
C4_RoundShrank ==
    /\ n >= 2
    /\ Size(info) < length1 + length2
    /\ Size(mid) > Size(info)
    /\ pc \in {"score", "filter"}

C6_FailsBeforeAnySearch ==
    parameter.kind = "bad" =>
        /\ n = 0
        /\ scored = <<>>
        /\ pc # "done"

\* C6 (amended): with such a parameter the call fails when the first
\* candidate reaches the comparison with int(parameter), that is after the
\* first candidate has been grown (and filtered), with nothing scored or
\* retained; when the graph has no candidate pair it does not fail at all
\* and returns the empty result.  No other parameter fails.
C6_FailsAtFirstCandidate ==
    /\ pc = "error" => parameter.kind = "bad"
    /\ parameter.kind = "bad" =>
          /\ x = 0
          /\ scored = <<>>
          /\ cluster = EmptyInfo
          /\ info_cluster = <<>>
          /\ pc = "error" => (n >= 1 /\ origins # <<>>)
          /\ pc = "done" => origins = <<>>

C6_ErrorAfterGrowth ==
    /\ pc = "error"
    /\ n >= 2
    /\ Len(origins) >= 2

\* ---- what the candidates scored so far say about the result
Candidates == 1..Len(scored)

NonEmpty == {i \in Candidates : scored[i].R # {} /\ scored[i].B # {}}

MaxScore(i) ==
    IF criterion = "power" THEN scored[i].p_eff
    ELSE Cardinality(scored[i].R) + Cardinality(scored[i].B)

IsFirstBest(i) ==
    /\ i \in NonEmpty
    /\ \A j \in NonEmpty : MaxScore(j) <= MaxScore(i)
    /\ \A j \in NonEmpty : j < i => MaxScore(j) < MaxScore(i)

\* C7: in max mode the retained cluster and record are those of the first
\* candidate, in create_table order, that attains the maximum score among
\* the candidates with nonempty R and B.
C7_EarliestBestIsReturned ==
    (pc = "done" /\ parameter.kind = "max") =>
        /\ Len(scored) = Len(origins)
        /\ NonEmpty = {} => (cluster = EmptyInfo /\ info_cluster = <<>>)
        /\ \A i \in Candidates :
              IsFirstBest(i) =>
                  /\ cluster = <<scored[i].R, scored[i].B>>
                  /\ Len(info_cluster) = 1
                  /\ info_cluster[1].Node1 = origins[i][1]
                  /\ info_cluster[1].Node2 = origins[i][2]
                  /\ info_cluster[1].R_size = Cardinality(scored[i].R)
                  /\ info_cluster[1].B_size = Cardinality(scored[i].B)
                  /\ info_cluster[1].P_saving = scored[i].p_eff

\* a later candidate ties with the retained one and yields another cluster
C7_TieWithLaterCandidate ==
    /\ pc = "done"
    /\ parameter.kind = "max"
    /\ \E i \in Candidates : \E j \in Candidates :
          /\ IsFirstBest(i)
          /\ i < j
          /\ j \in NonEmpty
          /\ MaxScore(j) = MaxScore(i)
          /\ <<scored[j].R, scored[j].B>> # <<scored[i].R, scored[i].B>>

Qualifying ==
    {i \in Candidates :
        Cardinality(scored[i].R) + Cardinality(scored[i].B) > parameter.val}

RecordsOf(i) ==
    {k \in 1..Len(info_cluster) :
        /\ info_cluster[k].Node1 = origins[i][1]
        /\ info_cluster[k].Node2 = origins[i][2]}

\* C8: in threshold mode with criterion "size" and parameter N the info
\* collection holds exactly one record for each candidate with r + b > N and
\* none for any other, and the returned cluster is the (R, B) of a
\* qualifying candidate of maximum power.
C8_ThresholdSizeComplete ==
    (pc = "done" /\ criterion = "size" /\ parameter.kind = "num") =>
        /\ Len(scored) = Len(origins)
        /\ Len(info_cluster) = Cardinality(Qualifying)
        /\ \A i \in Candidates :
              Cardinality(RecordsOf(i)) = IF i \in Qualifying THEN 1 ELSE 0
        /\ \A i \in Qualifying :
              \E k \in RecordsOf(i) :
                  /\ info_cluster[k].R_size = Cardinality(scored[i].R)
                  /\ info_cluster[k].B_size = Cardinality(scored[i].B)
                  /\ info_cluster[k].Size = Cardinality(scored[i].R) + Cardinality(scored[i].B)
        /\ Qualifying = {} => cluster = EmptyInfo
        /\ Qualifying # {} =>
              \E i \in Qualifying :
                  /\ \A j \in Qualifying : scored[j].p_eff <= scored[i].p_eff
                  /\ cluster = <<scored[i].R, scored[i].B>>

\* some candidates qualify, one of them exactly by one node, and some do not
C8_SomeQualifySomeDoNot ==
    /\ pc = "done"
    /\ criterion = "size"
    /\ parameter.kind = "num"
    /\ Qualifying # {}
    /\ Qualifying # Candidates
    /\ \E i \in Candidates :
          Cardinality(scored[i].R) + Cardinality(scored[i].B) = parameter.val

\* C9: for the (R, B) that is scored, |R| + |B| <= nodes, so the connector
\* size g = nodes - |R| - |B| is never negative.
C9_ConnectorSizeNonNegative ==
    pc = "score" => number_of_nodes(G) - Cardinality(info[1]) - Cardinality(info[2]) >= 0

\* C10: with exclude_inter, the (R, B) obtained from find_single_solution
\* followed by one excluding_inter_connections has no edge between R and B
\* in either direction, so has every returned cluster, and a further pass of
\* the filter would remove nothing.
C10_FilteredClusterHasNoInterEdge ==
    exclude_inter = TRUE =>
        /\ pc = "score" => ~InterEdge(G, info)
        /\ pc = "score" => excluding_inter_connections(G, info) = info
        /\ pc \in {"loop", "done"} => ~InterEdge(G, cluster)

C10_FilterRemovedInterEdge ==
    /\ exclude_inter = TRUE
    /\ pc = "score"
    /\ InterEdge(G, unfiltered)
    /\ info # unfiltered
    /\ Cardinality(info[1]) >= 2
    /\ Cardinality(info[2]) >= 2

====
